---- MODULE Spec2Model ----
(***************************************************************************)
(* Model of import_db.py: the script that reads init.sql, splits it into   *)
(* SQL statements line by line, executes and commits each statement on a   *)
(* MySQL connection, runs the verification queries and closes the          *)
(* connection.                                                             *)
(*                                                                         *)
(* Text is modelled as a sequence of characters (one-character strings).   *)
(* The file content is a sequence over Alphabet; NL is the line            *)
(* terminator that file.readlines() keeps at the end of each line.         *)
(***************************************************************************)
EXTENDS Integers, Sequences, FiniteSets, TLC

\* ------------------------------------------------------------------ bounds
\* Longest init.sql (in characters) of the splitter specification.
MaxFileLen == 6

\* Longest init.sql (in characters) of the specifications that execute the
\* statements: the whole run, and execute_sql_file called twice.
MaxRunFileLen == 5

\* ------------------------------------------------------- program constants
\* verify_data issues five queries: USE, three SELECT COUNT(*), one SELECT.
NumVerifyQueries == 5

\* ------------------------------------------------------------- characters
NL == "\n"
SP == " "
Whitespace == {SP, NL}
Alphabet == {"a", ";", "#", "-", SP, NL}

\* Every file content of at most n characters.
Files(n) == UNION {[1..m -> Alphabet] : m \in 0..n}

\* The file contents of the whole-run specification: the characters the
\* splitter tests for, with the line terminator as the only whitespace and
\* `-` or `;` as the only statement text (a `-` not followed by another one
\* is ordinary text). The splitter specification has the whole alphabet.
RunAlphabet == Alphabet \ {"a", SP}
RunFiles(n) == UNION {[1..m -> RunAlphabet] : m \in 0..n}

\* ------------------------------------------------------------ str methods
\* str.lstrip(): drop the leading whitespace.
RECURSIVE lstrip(_)
lstrip(s) ==
    IF s = <<>> THEN <<>>
    ELSE IF Head(s) \in Whitespace THEN lstrip(Tail(s)) ELSE s

\* str.rstrip(): drop the trailing whitespace.
RECURSIVE rstrip(_)
rstrip(s) ==
    IF s = <<>> THEN <<>>
    ELSE IF s[Len(s)] \in Whitespace THEN rstrip(SubSeq(s, 1, Len(s) - 1)) ELSE s

\* str.strip(): drop the leading and the trailing whitespace.
strip(s) == rstrip(lstrip(s))

\* str.startswith(prefix)
startswith(s, prefix) ==
    /\ Len(s) >= Len(prefix)
    /\ SubSeq(s, 1, Len(prefix)) = prefix

\* Mutant of endswith: the suffix is looked for anywhere in the text
\* (`';' in line` instead of `line.endswith(';')`).
endswithAnywhere(s, suffix) ==
    \E p \in 1..(Len(s) - Len(suffix) + 1) :
        SubSeq(s, p, p + Len(suffix) - 1) = suffix

\* str.endswith(suffix)
endswith(s, suffix) ==
    /\ Len(s) >= Len(suffix)
    /\ SubSeq(s, Len(s) - Len(suffix) + 1, Len(s)) = suffix

\* file.readlines(): the lines of the content, each with its terminator;
\* the last line has none when the content does not end with one.
RECURSIVE readlines(_)
readlines(content) ==
    IF content = <<>> THEN <<>>
    ELSE LET nls == {j \in 1..Len(content) : content[j] = NL}
         IN  IF nls = {} THEN <<content>>
             ELSE LET j == CHOOSE x \in nls : \A y \in nls : x <= y
                  IN  <<SubSeq(content, 1, j)>>
                        \o readlines(SubSeq(content, j + 1, Len(content)))

\* Mutant of IsSkipped: a line starting with `#` is not taken for a comment.
IsSkippedNoHash(line) ==
    \/ line = <<>>
    \/ startswith(line, <<"-", "-">>)

\* The test of line 43: a blank line or a comment line.
IsSkipped(line) ==
    \/ line = <<>>
    \/ startswith(line, <<"#">>)
    \/ startswith(line, <<"-", "-">>)

\* ------------------------------------------------------------------ state
VARIABLES
    file,               \* content of init.sql
    fileExists,         \* what os.path.exists('init.sql') answers
    pc,                 \* position of the run in main
    lines,              \* execute_sql_file: lines
    k,                  \* index of the next line of the `for line in lines` loop
    current_statement,  \* execute_sql_file: current_statement
    statements,         \* execute_sql_file: statements
    i,                  \* index of the next statement of the execution loop
    conn,               \* "none", "open" or "closed"
    dbLog,              \* the calls made to the database library, in order
    outcomes,           \* the success / failure marker reported per statement
    pending,            \* statements executed in the open transaction
    commits,            \* per successful commit, the statements it made durable
    q,                  \* index of the next query of verify_data
    importResult,       \* what execute_sql_file returned: "none", "true", "false"
    exitStatus,         \* exit status of the process, read when pc = "exit"
    verifyLogged,       \* verify_data reported a failure (line 115)
    uncaught,           \* an exception no handler caught is leaving main
    earlier             \* the statements lists of earlier runs of the splitter

vars == <<file, fileExists, pc, lines, k, current_statement, statements, i,
          conn, dbLog, outcomes, pending, commits, q, importResult, exitStatus,
          verifyLogged, uncaught, earlier>>

splitVars == <<lines, k, current_statement, statements>>
runVars == <<i, outcomes, pending, commits, q, importResult, verifyLogged,
            uncaught>>

\* One call to the database library: op is the call, arg the statement or
\* query index (0 for connect and close), res its result: "ok", "err" (it
\* raised mysql.connector.Error) or "exc" (it raised another Exception).
Call(op, arg, res) == [op |-> op, arg |-> arg, res |-> res]

\* ------------------------------------------------------------------- main
\* State at the start of main, for init.sql files of at most n characters.
InitWith(n) ==
    /\ file \in RunFiles(n)
    /\ fileExists \in BOOLEAN
    /\ pc = "main"
    /\ lines = <<>>
    /\ k = 1
    /\ current_statement = <<>>
    /\ statements = <<>>
    /\ i = 1
    /\ conn = "none"
    /\ dbLog = <<>>
    /\ outcomes = <<>>
    /\ pending = {}
    /\ commits = <<>>
    /\ q = 1
    /\ importResult = "none"
    /\ exitStatus = 0
    /\ verifyLogged = FALSE
    /\ uncaught = FALSE
    /\ earlier = {}

Init == InitWith(MaxRunFileLen)

\* Mutant of CheckFile: the run goes on without the file.
CheckFileNoExit ==
    /\ pc = "main"
    /\ pc' = "connect"
    /\ UNCHANGED <<file, fileExists, earlier, conn, dbLog, exitStatus>>
    /\ UNCHANGED splitVars
    /\ UNCHANGED runVars

\* main, lines 119-125: a missing init.sql ends the process with status 1.
CheckFile ==
    /\ pc = "main"
    /\ IF fileExists
       THEN /\ pc' = "connect"
            /\ UNCHANGED exitStatus
       ELSE /\ pc' = "exit"
            /\ exitStatus' = 1
    /\ UNCHANGED <<file, fileExists, earlier, conn, dbLog>>
    /\ UNCHANGED splitVars
    /\ UNCHANGED runVars

\* Mutant of Connect: main does not test what connect_to_mysql returned.
ConnectNoCheck ==
    /\ pc = "connect"
    /\ \E res \in {"ok", "err", "exc"} :
        /\ dbLog' = Append(dbLog, Call("connect", 0, res))
        /\ conn' = IF res = "ok" THEN "open" ELSE "none"
        /\ IF res = "exc"
           THEN /\ pc' = "exit"
                /\ exitStatus' = 1
                /\ uncaught' = TRUE
           ELSE /\ pc' = "read"
                /\ UNCHANGED <<exitStatus, uncaught>>
    /\ UNCHANGED <<file, fileExists, earlier>>
    /\ UNCHANGED splitVars
    /\ UNCHANGED <<i, outcomes, pending, commits, q, importResult, verifyLogged>>

\* connect_to_mysql and main, lines 128-131: one call to connect. When it
\* raises mysql.connector.Error, connect_to_mysql returns None (line 25) and
\* main exits with status 1 (line 131). Any other exception is not caught
\* at line 23: it leaves connect_to_mysql and main, and the process ends
\* with a traceback and status 1.
Connect ==
    /\ pc = "connect"
    /\ \E res \in {"ok", "err", "exc"} :
        /\ dbLog' = Append(dbLog, Call("connect", 0, res))
        /\ IF res = "ok"
           THEN /\ conn' = "open"
                /\ pc' = "read"
                /\ UNCHANGED <<exitStatus, uncaught>>
           ELSE /\ conn' = "none"
                /\ pc' = "exit"
                /\ exitStatus' = 1
                /\ uncaught' = (res = "exc")
    /\ UNCHANGED <<file, fileExists, earlier>>
    /\ UNCHANGED splitVars
    /\ UNCHANGED <<i, outcomes, pending, commits, q, importResult, verifyLogged>>

\* execute_sql_file, lines 29-38: the cursor is created and the file read.
\* An exception here (connection.cursor() raises, the file cannot be opened
\* or decoded) is caught at line 76: execute_sql_file returns False and main
\* goes on to close.
ReadScript ==
    /\ pc = "read"
    /\ \E res \in {"ok", "exc"} :
        IF res = "ok"
        THEN /\ lines' = readlines(file)
             /\ k' = 1
             /\ current_statement' = <<>>
             /\ statements' = <<>>
             /\ pc' = "split"
             /\ UNCHANGED importResult
        ELSE /\ importResult' = "false"
             /\ pc' = "close"
             /\ UNCHANGED splitVars
    /\ UNCHANGED <<file, fileExists, earlier, conn, dbLog, exitStatus>>
    /\ UNCHANGED <<i, outcomes, pending, commits, q, verifyLogged, uncaught>>

\* --------------------------------------------------------------- splitter
\* Mutant of ProcessLine: the accumulator is not reset after a Statement is
\* emitted.
ProcessLineKeepsAccumulator(acc, out, raw) ==
    LET line == strip(raw)
        joined == acc \o <<SP>> \o line
    IN  IF IsSkipped(line) THEN [acc |-> acc, out |-> out]
        ELSE IF endswith(line, <<";">>)
             THEN [acc |-> joined, out |-> Append(out, strip(joined))]
             ELSE [acc |-> joined, out |-> out]

\* Mutant of ProcessLine: a blank or comment line ends the statement being
\* accumulated.
ProcessLineCommentEnds(acc, out, raw) ==
    LET line == strip(raw)
        joined == acc \o <<SP>> \o line
    IN  IF IsSkipped(line)
        THEN [acc |-> <<>>,
              out |-> IF strip(acc) # <<>> THEN Append(out, strip(acc)) ELSE out]
        ELSE IF endswith(line, <<";">>)
             THEN [acc |-> <<>>, out |-> Append(out, strip(joined))]
             ELSE [acc |-> joined, out |-> out]

\* Mutant of ProcessLine: the line is appended to the accumulator without
\* the separating space.
ProcessLineJoinsWithoutSpace(acc, out, raw) ==
    LET line == strip(raw)
        joined == acc \o line
    IN  IF IsSkipped(line) THEN [acc |-> acc, out |-> out]
        ELSE IF endswith(line, <<";">>)
             THEN [acc |-> <<>>, out |-> Append(out, strip(joined))]
             ELSE [acc |-> joined, out |-> out]

\* Lines 41-51, the body of `for line in lines`: the accumulator
\* (current_statement) and the output list (statements) after the line raw.
ProcessLine(acc, out, raw) ==
    LET line == strip(raw)
        joined == acc \o <<SP>> \o line
    IN  IF IsSkipped(line) THEN [acc |-> acc, out |-> out]
        ELSE IF endswith(line, <<";">>)
             THEN [acc |-> <<>>, out |-> Append(out, strip(joined))]
             ELSE [acc |-> joined, out |-> out]

\* Mutant of Flush: what is left in the accumulator is dropped.
FlushDropsTrailing(acc, out) == out

\* Mutant of Flush: the accumulator is emitted without the test of line 54.
FlushNoCheck(acc, out) == Append(out, strip(acc))

\* Lines 54-55: the output list after the loop, given what is left in the
\* accumulator.
Flush(acc, out) ==
    IF strip(acc) # <<>> THEN Append(out, strip(acc)) ELSE out

\* Lines 40-51, one iteration of `for line in lines`.
SplitLine ==
    /\ pc = "split"
    /\ k <= Len(lines)
    /\ LET after == ProcessLine(current_statement, statements, lines[k])
       IN  /\ current_statement' = after.acc
           /\ statements' = after.out
    /\ k' = k + 1
    /\ UNCHANGED <<file, fileExists, earlier, pc, lines, conn, dbLog, exitStatus>>
    /\ UNCHANGED runVars

\* Lines 53-57: the loop is over; what is left in the accumulator is
\* emitted and the execution loop starts.
SplitEnd ==
    /\ pc = "split"
    /\ k > Len(lines)
    /\ statements' = Flush(current_statement, statements)
    /\ pc' = "exec"
    /\ i' = 1
    /\ UNCHANGED <<file, fileExists, earlier, lines, k, current_statement, conn, dbLog,
                   exitStatus>>
    /\ UNCHANGED <<outcomes, pending, commits, q, importResult, verifyLogged, uncaught>>

\* ----------------------------------------------------------------- runner
\* The database is transactional (autocommit is off, the connector's
\* default): a statement that executes joins the open transaction, a
\* statement that raises leaves nothing in it, commit makes the open
\* transaction durable, and a commit that raises or a close without commit
\* rolls the open transaction back.

\* Mutant of ExecuteStatement: a statement that raises
\* mysql.connector.Error ends the loop (break instead of continue).
ExecuteStatementStopsOnError ==
    /\ pc = "exec"
    /\ i <= Len(statements)
    /\ \E res \in {"ok", "err", "exc"} :
        /\ dbLog' = Append(dbLog, Call("execute", i, res))
        /\ \/ /\ res = "ok"
              /\ pending' = pending \cup {i}
              /\ pc' = "commit"
              /\ UNCHANGED <<i, outcomes, importResult>>
           \/ /\ res = "err"
              /\ outcomes' = Append(outcomes, "failure")
              /\ i' = Len(statements) + 1
              /\ UNCHANGED <<pc, pending, importResult>>
           \/ /\ res = "exc"
              /\ importResult' = "false"
              /\ pc' = "close"
              /\ UNCHANGED <<i, outcomes, pending>>
    /\ UNCHANGED <<file, fileExists, earlier, conn, exitStatus, commits, q, verifyLogged, uncaught>>
    /\ UNCHANGED splitVars

\* Mutant of ExecuteStatement: no commit after a statement that executed.
ExecuteStatementNoCommit ==
    /\ pc = "exec"
    /\ i <= Len(statements)
    /\ \E res \in {"ok", "err", "exc"} :
        /\ dbLog' = Append(dbLog, Call("execute", i, res))
        /\ \/ /\ res = "ok"
              /\ pending' = pending \cup {i}
              /\ outcomes' = Append(outcomes, "success")
              /\ i' = i + 1
              /\ UNCHANGED <<pc, importResult>>
           \/ /\ res = "err"
              /\ outcomes' = Append(outcomes, "failure")
              /\ i' = i + 1
              /\ UNCHANGED <<pc, pending, importResult>>
           \/ /\ res = "exc"
              /\ importResult' = "false"
              /\ pc' = "close"
              /\ UNCHANGED <<i, outcomes, pending>>
    /\ UNCHANGED <<file, fileExists, earlier, conn, exitStatus, commits, q, verifyLogged, uncaught>>
    /\ UNCHANGED splitVars

\* Lines 58-64 and 67-78, one iteration of the execution loop up to the call
\* of cursor.execute. mysql.connector.Error is caught at line 67 and the
\* loop continues; any other exception is caught at line 76 and
\* execute_sql_file returns False.
ExecuteStatement ==
    /\ pc = "exec"
    /\ i <= Len(statements)
    /\ IF statements[i] = <<>>
       THEN /\ i' = i + 1
            /\ UNCHANGED <<pc, dbLog, outcomes, pending, importResult>>
       ELSE \E res \in {"ok", "err", "exc"} :
            /\ dbLog' = Append(dbLog, Call("execute", i, res))
            /\ \/ /\ res = "ok"
                  /\ pending' = pending \cup {i}
                  /\ pc' = "commit"
                  /\ UNCHANGED <<i, outcomes, importResult>>
               \/ /\ res = "err"
                  /\ outcomes' = Append(outcomes, "failure")
                  /\ i' = i + 1
                  /\ UNCHANGED <<pc, pending, importResult>>
               \/ /\ res = "exc"
                  /\ importResult' = "false"
                  /\ pc' = "close"
                  /\ UNCHANGED <<i, outcomes, pending>>
    /\ UNCHANGED <<file, fileExists, earlier, conn, exitStatus, commits, q, verifyLogged, uncaught>>
    /\ UNCHANGED splitVars

\* Mutant of Commit: the success marker is reported whatever commit did
\* (an error of commit is swallowed).
CommitFailureReportedSuccess ==
    /\ pc = "commit"
    /\ \E res \in {"ok", "err", "exc"} :
        /\ dbLog' = Append(dbLog, Call("commit", i, res))
        /\ commits' = IF res = "ok" THEN Append(commits, pending) ELSE commits
    /\ outcomes' = Append(outcomes, "success")
    /\ pending' = {}
    /\ i' = i + 1
    /\ pc' = "exec"
    /\ UNCHANGED <<file, fileExists, earlier, conn, exitStatus, q, importResult, verifyLogged, uncaught>>
    /\ UNCHANGED splitVars

\* Lines 65-78: connection.commit() after a statement that executed, then
\* the success marker. mysql.connector.Error from commit is caught at line
\* 67 like one from execute and the loop continues; any other exception is
\* caught at line 76: no marker is reported for the statement, the loop is
\* left and execute_sql_file returns False.
Commit ==
    /\ pc = "commit"
    /\ \E res \in {"ok", "err", "exc"} :
        /\ dbLog' = Append(dbLog, Call("commit", i, res))
        /\ \/ /\ res = "ok"
              /\ commits' = Append(commits, pending)
              /\ outcomes' = Append(outcomes, "success")
              /\ i' = i + 1
              /\ pc' = "exec"
              /\ UNCHANGED importResult
           \/ /\ res = "err"
              /\ outcomes' = Append(outcomes, "failure")
              /\ i' = i + 1
              /\ pc' = "exec"
              /\ UNCHANGED <<commits, importResult>>
           \/ /\ res = "exc"
              /\ importResult' = "false"
              /\ pc' = "close"
              /\ UNCHANGED <<commits, outcomes, i>>
    /\ pending' = {}
    /\ UNCHANGED <<file, fileExists, earlier, conn, exitStatus, q, verifyLogged, uncaught>>
    /\ UNCHANGED splitVars

\* The calls of verify_data made from the end of query q - 1 to the end of
\* query q that can raise: connection.cursor() comes before the first query
\* (line 85), which fetches nothing (line 88); every later query is followed
\* by a fetch (lines 92, 97, 102, 107) and the last one by cursor.close()
\* too (line 112).
VerifyCalls(qq) == IF qq = 1 THEN {"cursor", "query"} ELSE {"query", "after"}

\* Mutant of FinishImport: execute_sql_file may return True, and main go on
\* to verify_data, before the loop has reached the last statement.
FinishImportEarly ==
    /\ pc = "exec"
    /\ importResult' = "true"
    /\ pc' = "verify"
    /\ q' = 1
    /\ UNCHANGED <<file, fileExists, earlier, conn, dbLog, exitStatus, i, outcomes,
                   pending, commits, verifyLogged, uncaught>>
    /\ UNCHANGED splitVars

\* Mutant of FinishImport: execute_sql_file closes the connection, not only
\* the cursor, before it returns.
FinishImportClosesConnection ==
    /\ pc = "exec"
    /\ i > Len(statements)
    /\ dbLog' = Append(dbLog, Call("close", 0, "ok"))
    /\ conn' = "closed"
    /\ importResult' = "true"
    /\ pc' = "verify"
    /\ q' = 1
    /\ UNCHANGED <<file, fileExists, earlier, exitStatus, i, outcomes,
                   pending, commits, verifyLogged, uncaught>>
    /\ UNCHANGED splitVars

\* Lines 73-80, then main, lines 135-139: the loop is over and the cursor
\* is closed. When cursor.close() returns, execute_sql_file returns True and
\* main calls verify_data. When it raises (mysql.connector.Error or another
\* exception) the handler of line 76 makes execute_sql_file return False and
\* main skips verify_data. The calls on the cursor object itself are not
\* recorded in dbLog.
FinishImport ==
    /\ pc = "exec"
    /\ i > Len(statements)
    /\ \E res \in {"ok", "err", "exc"} :
        IF res = "ok"
        THEN /\ importResult' = "true"
             /\ pc' = "verify"
             /\ q' = 1
        ELSE /\ importResult' = "false"
             /\ pc' = "close"
             /\ UNCHANGED q
    /\ UNCHANGED <<file, fileExists, earlier, conn, dbLog, exitStatus, i, outcomes,
                   pending, commits, verifyLogged, uncaught>>
    /\ UNCHANGED splitVars

\* verify_data, lines 84-115, up to and including query q, the next of the
\* five queries. The calls that can raise are connection.cursor() before the
\* first query (line 85), the query itself, and the calls that follow it
\* before the next query: fetchone() or fetchall() on its result and, after
\* the last query, cursor.close() (line 112). mysql.connector.Error from any
\* of them is caught at line 114, reported at line 115, and verify_data
\* returns. Any other exception is not caught: it leaves verify_data and,
\* after the finally clause of main, main itself.
VerifyQuery ==
    /\ pc = "verify"
    /\ q <= NumVerifyQueries
    /\ \/ /\ dbLog' = Append(dbLog, Call("query", q, "ok"))
          /\ q' = q + 1
          /\ pc' = IF q = NumVerifyQueries THEN "close" ELSE "verify"
          /\ UNCHANGED <<verifyLogged, uncaught>>
       \/ \E at \in VerifyCalls(q), how \in {"err", "exc"} :
          /\ dbLog' = IF at = "cursor" THEN dbLog
                      ELSE Append(dbLog, Call("query", q, IF at = "query" THEN how ELSE "ok"))
          /\ q' = IF at = "after" THEN q + 1 ELSE q
          /\ verifyLogged' = (how = "err")
          /\ uncaught' = (how = "exc")
          /\ pc' = "close"
    /\ UNCHANGED <<file, fileExists, earlier, conn, exitStatus, i, outcomes, pending,
                   commits, importResult>>
    /\ UNCHANGED splitVars

\* main, lines 141-147: the finally clause calls connection.close(). When
\* the call returns the connection is closed; main returns and the process
\* ends with status 0, or, when an exception is leaving main, with a
\* traceback and status 1. Nothing catches what connection.close() raises
\* (mysql.connector.Error or another exception): the connection is left
\* open, the exception leaves main and the process ends with status 1.
\* Every executed statement has been committed or rolled back by then
\* (lines 64-65), so no transaction is open.
Close ==
    /\ pc = "close"
    /\ \E res \in {"ok", "err", "exc"} :
        /\ dbLog' = Append(dbLog, Call("close", 0, res))
        /\ conn' = IF res = "ok" THEN "closed" ELSE conn
        /\ uncaught' = (uncaught \/ res # "ok")
    /\ pc' = "exit"
    /\ exitStatus' = IF uncaught' THEN 1 ELSE 0
    /\ UNCHANGED <<file, fileExists, earlier, i, outcomes, pending, commits, q,
                   importResult, verifyLogged>>
    /\ UNCHANGED splitVars

\* --------------------------------------------------------- specifications
Next ==
    \/ CheckFile
    \/ Connect
    \/ ReadScript
    \/ SplitLine
    \/ SplitEnd
    \/ ExecuteStatement
    \/ Commit
    \/ FinishImport
    \/ VerifyQuery
    \/ Close

\* A whole run of main.
Spec == Init /\ [][Next]_vars

\* The state of a run when execute_sql_file has read the lines of init.sql
\* (line 38), for every file of at most n characters.
SplitInitWith(n) ==
    /\ file \in Files(n)
    /\ fileExists = TRUE
    /\ pc = "split"
    /\ lines = readlines(file)
    /\ k = 1
    /\ current_statement = <<>>
    /\ statements = <<>>
    /\ i = 1
    /\ conn = "open"
    /\ dbLog = <<Call("connect", 0, "ok")>>
    /\ outcomes = <<>>
    /\ pending = {}
    /\ commits = <<>>
    /\ q = 1
    /\ importResult = "none"
    /\ exitStatus = 0
    /\ verifyLogged = FALSE
    /\ uncaught = FALSE
    /\ earlier = {}

\* The splitter alone, on every file of at most MaxFileLen characters.
SplitInit == SplitInitWith(MaxFileLen)

SplitNext ==
    \/ SplitLine
    \/ SplitEnd

SplitSpec == SplitInit /\ [][SplitNext]_vars

\* Mutant of SplitAgain: the accumulator and the output list outlive the
\* call (kept outside the function instead of the locals of lines 37-38).
SplitAgainKeepsState ==
    /\ pc \in {"verify", "close"}
    /\ earlier = {}
    /\ earlier' = {statements}
    /\ \E res \in {"ok", "exc"} :
        IF res = "ok"
        THEN /\ lines' = readlines(file)
             /\ k' = 1
             /\ pc' = "split"
             /\ UNCHANGED <<current_statement, statements, importResult>>
        ELSE /\ importResult' = "false"
             /\ pc' = "close"
             /\ UNCHANGED splitVars
    /\ UNCHANGED <<file, fileExists, conn, dbLog, exitStatus>>
    /\ UNCHANGED <<i, outcomes, pending, commits, q, verifyLogged, uncaught>>

\* execute_sql_file called a second time on the same connection and the
\* same file, once the first call has returned (True after lines 73-80,
\* False after line 78): lines 29-38 of the new call create the cursor, read
\* the file again and create the accumulator and the output list anew, or
\* raise and make the call return False (line 76). The list the first call
\* built is remembered in earlier. What the first call executed, committed
\* and returned stays as it is.
SplitAgain ==
    /\ pc \in {"verify", "close"}
    /\ earlier = {}
    /\ earlier' = {statements}
    /\ \E res \in {"ok", "exc"} :
        IF res = "ok"
        THEN /\ lines' = readlines(file)
             /\ k' = 1
             /\ current_statement' = <<>>
             /\ statements' = <<>>
             /\ pc' = "split"
             /\ UNCHANGED importResult
        ELSE /\ importResult' = "false"
             /\ pc' = "close"
             /\ UNCHANGED splitVars
    /\ UNCHANGED <<file, fileExists, conn, dbLog, exitStatus>>
    /\ UNCHANGED <<i, outcomes, pending, commits, q, verifyLogged, uncaught>>

\* The steps of two calls of execute_sql_file in a row.
TwiceNext ==
    \/ SplitLine
    \/ SplitEnd
    \/ ExecuteStatement
    \/ Commit
    \/ FinishImport
    \/ SplitAgain

\* execute_sql_file called twice on one file and one connection, from the
\* point where the first call has read the file, on every file of at most
\* MaxRunFileLen characters.
TwiceInit == SplitInitWith(MaxRunFileLen)

TwiceSpec == TwiceInit /\ [][TwiceNext]_vars

\* ------------------------------------------------- vocabulary of the claims
\* The text notions the properties are stated with, written out on the
\* characters and independent of the operators that model the code.

\* s without its leading and trailing whitespace.
TrimOf(s) ==
    LET solid == {j \in 1..Len(s) : s[j] # " " /\ s[j] # "\n"}
    IN  IF solid = {} THEN <<>>
        ELSE SubSeq(s, CHOOSE x \in solid : \A y \in solid : x <= y,
                       CHOOSE x \in solid : \A y \in solid : x >= y)

\* A trimmed line that is blank or a comment line.
BlankOrComment(t) ==
    \/ Len(t) = 0
    \/ t[1] = "#"
    \/ (Len(t) >= 2 /\ t[1] = "-" /\ t[2] = "-")

\* A trimmed line that ends with the statement terminator.
Terminated(t) == Len(t) >= 1 /\ t[Len(t)] = ";"

\* The lines of the script, trimmed.
StrippedLines == [j \in 1..Len(lines) |-> TrimOf(lines[j])]

\* The trimmed lines that are neither blank nor comments, in source order.
KeptLines == SelectSeq(StrippedLines, LAMBDA t : ~BlankOrComment(t))

\* The texts of ts joined by single spaces.
RECURSIVE JoinSp(_)
JoinSp(ts) ==
    IF ts = <<>> THEN <<>>
    ELSE IF Len(ts) = 1 THEN ts[1]
    ELSE ts[1] \o <<" ">> \o JoinSp(Tail(ts))

\* Number of kept lines that end with the terminator.
NumTerminated == Cardinality({j \in 1..Len(KeptLines) : Terminated(KeptLines[j])})

\* The kept lines after the last terminated kept line.
TrailingLines ==
    LET term == {j \in 1..Len(KeptLines) : Terminated(KeptLines[j])}
        last == IF term = {} THEN 0 ELSE CHOOSE x \in term : \A y \in term : x >= y
    IN  SubSeq(KeptLines, last + 1, Len(KeptLines))

\* The splitter has consumed every line and the leftover (lines 40-55).
SplitDone == pc = "exec"

\* ----------------------------------------------------------------- claims
\* C2 (leniency): when the last non-skipped line does not end with `;`,
\* the unterminated text after the last terminated line is emitted as the
\* final Statement, after one Statement per terminated line.
C2_TrailingStatementEmitted ==
    (SplitDone /\ TrailingLines # <<>>) =>
        /\ Len(statements) = NumTerminated + 1
        /\ statements[Len(statements)] = JoinSp(TrailingLines)
        /\ \A n \in 1..NumTerminated : Terminated(statements[n])

\* C2 witness: a terminated statement followed by an unterminated one,
\* both emitted.
C2_Witness ==
    /\ SplitDone
    /\ NumTerminated >= 1
    /\ TrailingLines # <<>>
    /\ Len(statements) = NumTerminated + 1
    /\ ~Terminated(statements[Len(statements)])

\* C3: when every line ends with `;` and none is blank or a comment, there
\* is one Statement per line and the i-th Statement is the i-th trimmed line.
C3_OneStatementPerTerminatedLine ==
    (SplitDone /\ \A j \in 1..Len(lines) :
                      ~BlankOrComment(StrippedLines[j]) /\ Terminated(StrippedLines[j]))
        => statements = StrippedLines

\* C3 witness: two different terminated lines, split.
C3_Witness ==
    /\ SplitDone
    /\ Len(lines) >= 2
    /\ \A j \in 1..Len(lines) :
           ~BlankOrComment(StrippedLines[j]) /\ Terminated(StrippedLines[j])
    /\ StrippedLines[1] # StrippedLines[2]
    /\ Len(statements) = Len(lines)

\* C4: an iteration on a blank or comment line changes neither the
\* accumulator nor the output list, whatever the accumulator holds; and a
\* script whose only non-skipped lines are an unterminated line followed by
\* a terminated one yields the single Statement made of the two, wherever
\* blank and comment lines sit between them.
C4_SkippedLineChangesNothing ==
    /\ [][(pc = "split" /\ k <= Len(lines) /\ BlankOrComment(TrimOf(lines[k])))
            => (current_statement' = current_statement /\ statements' = statements)]_vars
    /\ []((SplitDone /\ Len(KeptLines) = 2 /\ ~Terminated(KeptLines[1])
              /\ Terminated(KeptLines[2]))
            => statements = <<KeptLines[1] \o <<" ">> \o KeptLines[2]>>)

\* C4 witness: a comment line between the two lines of one statement, and
\* the one Statement that results.
C4_Witness ==
    /\ SplitDone
    /\ Len(lines) = 3
    /\ ~BlankOrComment(StrippedLines[1]) /\ ~Terminated(StrippedLines[1])
    /\ BlankOrComment(StrippedLines[2]) /\ StrippedLines[2] # <<>>
    /\ ~BlankOrComment(StrippedLines[3]) /\ Terminated(StrippedLines[3])
    /\ Len(statements) = 1

\* C6: no Statement of the output list is empty after trimming, after every
\* line processed and after the leftover is handled.
C6_NoEmptyStatement ==
    \A n \in 1..Len(statements) : TrimOf(statements[n]) # <<>>

\* C6 witness: the lines are consumed with an empty accumulator left over,
\* blank or comment lines were seen, and Statements were emitted.
C6_Witness ==
    /\ SplitDone
    /\ current_statement = <<>>
    /\ statements # <<>>
    /\ \E j \in 1..Len(lines) : BlankOrComment(StrippedLines[j])

\* The calls of one kind made to the database library, in order.
CallsOf(op) == SelectSeq(dbLog, LAMBDA c : c.op = op)

\* Statement j was reported failed by the database: its execute or its
\* commit raised mysql.connector.Error.
FailedInDb(j) ==
    \E p \in 1..Len(dbLog) :
        /\ dbLog[p].op \in {"execute", "commit"}
        /\ dbLog[p].arg = j
        /\ dbLog[p].res = "err"

\* No execute and no commit raised an exception other than
\* mysql.connector.Error.
NoUnexpectedError ==
    \A p \in 1..Len(dbLog) :
        dbLog[p].op \in {"execute", "commit"} => dbLog[p].res # "exc"

\* The connection was established.
Connected ==
    \E p \in 1..Len(dbLog) : dbLog[p].op = "connect" /\ dbLog[p].res = "ok"

\* C1 (continuation): the statements are submitted in source order, each at
\* most once; a Statement the database fails is reported as a failure and
\* the next Statement is attempted; and once the execution loop is over,
\* whatever statements failed in the database, every Statement was
\* submitted exactly once.
C1_EveryStatementSubmittedOnce ==
    LET ex == CallsOf("execute")
    IN  /\ Len(ex) <= Len(statements)
        /\ \A j \in 1..Len(ex) : ex[j].arg = j
        /\ \A j \in 1..Len(ex) :
               (ex[j].res = "err" /\ Len(outcomes) >= j) => outcomes[j] = "failure"
        /\ \A j \in 1..Len(ex) :
               (FailedInDb(j) /\ j < Len(statements))
                   => (Len(ex) > j \/ (pc = "exec" /\ i = j + 1))
        /\ (pc \in {"verify", "close", "exit"} /\ NoUnexpectedError)
               => Len(ex) = Len(statements)

\* C1 witness: three statements, the second fails, all three are attempted
\* and the outcomes are success, failure, success.
C1_Witness ==
    /\ pc = "exit"
    /\ Len(statements) = 3
    /\ Len(CallsOf("execute")) = 3
    /\ CallsOf("execute")[2].res = "err"
    /\ outcomes = <<"success", "failure", "success">>

\* C5: a script of blank and comment lines only (the empty script too)
\* yields no Statement, and nothing is submitted for execution.
C5_OnlyCommentsNoStatement ==
    (\A j \in 1..Len(lines) : BlankOrComment(TrimOf(lines[j])))
        => /\ statements = <<>>
           /\ CallsOf("execute") = <<>>
           /\ CallsOf("commit") = <<>>

\* C5 witness: a finished run on a script of comment and blank lines.
C5_Witness ==
    /\ pc = "exit"
    /\ importResult = "true"
    /\ Len(lines) >= 2
    /\ \A j \in 1..Len(lines) : BlankOrComment(StrippedLines[j])
    /\ \E j \in 1..Len(lines) : StrippedLines[j] # <<>> /\ StrippedLines[j][1] = "#"
    /\ \E j \in 1..Len(lines) : StrippedLines[j] = <<>>
    /\ statements = <<>>

\* C7: a statement that executed is followed at once by a commit, before
\* any other call, and every successful commit makes durable exactly the
\* one Statement just executed.
C7_OneStatementPerCommit ==
    LET done == SelectSeq(dbLog, LAMBDA c : c.op = "commit" /\ c.res = "ok")
    IN  /\ \A p \in 1..Len(dbLog) :
               (dbLog[p].op = "execute" /\ dbLog[p].res = "ok")
                   => IF p < Len(dbLog)
                      THEN dbLog[p + 1].op = "commit" /\ dbLog[p + 1].arg = dbLog[p].arg
                      ELSE pc = "commit"
        /\ Len(commits) = Len(done)
        /\ \A n \in 1..Len(commits) : commits[n] = {done[n].arg}

\* C7 witness: a finished run in which two statements were committed, one
\* per commit.
C7_Witness ==
    /\ pc = "exit"
    /\ Len(commits) = 2
    /\ commits[1] = {1}
    /\ commits[2] = {2}

\* C8: a run that established the connection has released it exactly once
\* when it ends, whatever the path: close was called once and the
\* connection is closed.
C8_ConnectionReleasedOnce ==
    (pc = "exit" /\ Connected) => (Len(CallsOf("close")) = 1 /\ conn = "closed")

\* C9: with init.sql missing the run ends at once with exit status 1: no
\* connection is opened, no Statement is built or executed, no query issued.
C9_MissingFileIsFatal ==
    ~fileExists =>
        /\ pc \in {"main", "exit"}
        /\ pc = "exit" => exitStatus = 1
        /\ dbLog = <<>>
        /\ conn = "none"
        /\ statements = <<>>

\* C9 witness: the process has exited on a missing file.
C9_Witness ==
    /\ ~fileExists
    /\ pc = "exit"
    /\ exitStatus = 1

\* C10: connect is called at most once; when it fails (it raises
\* mysql.connector.Error or another exception) the process has exited with
\* status 1 and the failed connect is the only call ever made: no execute,
\* no commit, no query.
C10_ConnectFailureIsFatal ==
    /\ Len(CallsOf("connect")) <= 1
    /\ (dbLog # <<>> /\ dbLog[1].res # "ok")
           => /\ Len(dbLog) = 1
              /\ dbLog[1].op = "connect"
              /\ pc = "exit"
              /\ exitStatus = 1
              /\ conn = "none"
              /\ commits = <<>>
              /\ statements = <<>>

\* C10 witness: the process has exited on a failed connect, with a script
\* that holds a statement.
C10_Witness ==
    /\ pc = "exit"
    /\ fileExists
    /\ dbLog = <<Call("connect", 0, "err")>>
    /\ exitStatus = 1
    /\ \E j \in 1..Len(file) : file[j] = ";"

\* C11: a run that found init.sql and established the connection ends with
\* exit status 0, whichever statements failed to execute.
C11_StatementFailuresKeepExitStatus ==
    (pc = "exit" /\ fileExists /\ Connected) => exitStatus = 0

\* A verification query failed: it raised mysql.connector.Error or another
\* exception.
QueryFailed ==
    \E p \in 1..Len(dbLog) : dbLog[p].op = "query" /\ dbLog[p].res # "ok"

\* C12: a failed verification query is contained: verify_data has reported
\* it, no exception is on its way out of main, the import is still reported
\* as done, and the run ends with the connection closed once and exit
\* status 0.
C12_VerificationFailureContained ==
    QueryFailed =>
        /\ verifyLogged
        /\ ~uncaught
        /\ importResult = "true"
        /\ pc \in {"close", "exit"}
        /\ pc = "exit" => /\ exitStatus = 0
                          /\ conn = "closed"
                          /\ Len(CallsOf("close")) = 1

\* C13: every run of the splitter starts from an empty accumulator and an
\* empty output list, and a run on the same script ends with the same
\* Statements as every run before it.
C13_SplitterRunsAgree ==
    /\ (pc = "split" /\ k = 1) => (current_statement = <<>> /\ statements = <<>>)
    /\ SplitDone => \A r \in earlier : r = statements

\* C13 witness: a second run has ended with the Statements of the first,
\* on a script that leaves text in the accumulator.
C13_Witness ==
    /\ SplitDone
    /\ earlier = {statements}
    /\ Len(statements) >= 2
    /\ current_statement # <<>>

\* C14: a verification query is issued only when every Statement has been
\* submitted and execute_sql_file has returned True; after a verification
\* query nothing is executed or committed any more; and an import that
\* ended with an unexpected error (it returned False) is followed by no
\* verification query.
C14_VerificationAfterImport ==
    /\ CallsOf("query") # <<>>
           => /\ Len(CallsOf("execute")) = Len(statements)
              /\ importResult = "true"
    /\ \A p \in 1..Len(dbLog) :
           dbLog[p].op = "query"
               => \A r \in (p + 1)..Len(dbLog) : dbLog[r].op \in {"query", "close"}
    /\ importResult = "false" => CallsOf("query") = <<>>

\* C14 witness: a finished run in which two statements were submitted, one
\* of them failing, and then the five verification queries.
C14_Witness ==
    /\ pc = "exit"
    /\ Len(statements) = 2
    /\ Len(CallsOf("execute")) = 2
    /\ CallsOf("execute")[1].res = "err"
    /\ Len(CallsOf("query")) = NumVerifyQueries

\* The trimmed, non-skipped lines ts cut after every terminated line: one
\* group of lines per Statement, the last group unterminated when lines
\* follow the last terminated one.
RECURSIVE GroupsOf(_)
GroupsOf(ts) ==
    IF ts = <<>> THEN <<>>
    ELSE LET term == {j \in 1..Len(ts) : Terminated(ts[j])}
         IN  IF term = {} THEN <<ts>>
             ELSE LET j == CHOOSE x \in term : \A y \in term : x <= y
                  IN  <<SubSeq(ts, 1, j)>> \o GroupsOf(SubSeq(ts, j + 1, Len(ts)))

\* s holds two whitespace characters in a row.
HasWhitespaceRun(s) ==
    \E p \in 1..(Len(s) - 1) :
        /\ s[p] = " " \/ s[p] = "\n"
        /\ s[p + 1] = " " \/ s[p + 1] = "\n"

\* C15 as stated: every emitted Statement is trimmed and holds no run of
\* two or more whitespace characters.
C15_NoWhitespaceRun ==
    \A n \in 1..Len(statements) :
        /\ TrimOf(statements[n]) = statements[n]
        /\ ~HasWhitespaceRun(statements[n])

\* C15 as amended: every emitted Statement is trimmed, and it is its source
\* lines, each trimmed and otherwise as written, joined by exactly one
\* space; so it holds a run of whitespace only where a source line does.
C15_TrimmedAndJoinedBySingleSpace ==
    /\ \A n \in 1..Len(statements) : TrimOf(statements[n]) = statements[n]
    /\ SplitDone =>
           LET groups == GroupsOf(KeptLines)
           IN  /\ Len(statements) = Len(groups)
               /\ \A n \in 1..Len(groups) :
                      /\ statements[n] = JoinSp(groups[n])
                      /\ HasWhitespaceRun(statements[n])
                             <=> \E m \in 1..Len(groups[n]) : HasWhitespaceRun(groups[n][m])

\* C15 witness: a Statement made of two source lines, the first with two
\* spaces inside, which the Statement keeps.
C15_Witness ==
    /\ SplitDone
    /\ Len(statements) = 1
    /\ Len(KeptLines) = 2
    /\ HasWhitespaceRun(KeptLines[1])
    /\ statements[1] = KeptLines[1] \o <<" ">> \o KeptLines[2]

\* The trimmed, non-skipped lines among the first n lines, in source order.
KeptUpTo(n) ==
    SelectSeq(SubSeq(StrippedLines, 1, n), LAMBDA t : ~BlankOrComment(t))

\* C16 (content conservation): while the splitter runs, the Statements
\* emitted so far followed by the text being accumulated, joined by single
\* spaces, are the non-skipped lines consumed so far joined by single
\* spaces; and when it is done the Statements joined by single spaces are
\* all the non-skipped lines joined by single spaces.
C16_ContentConserved ==
    /\ pc = "split" =>
           JoinSp(IF current_statement = <<>> THEN statements
                  ELSE Append(statements, TrimOf(current_statement)))
               = JoinSp(KeptUpTo(k - 1))
    /\ SplitDone => JoinSp(statements) = JoinSp(KeptLines)

\* C16 witness: a script with a comment line that holds text between two
\* statements, both emitted.
C16_Witness ==
    /\ SplitDone
    /\ Len(statements) = 2
    /\ Len(lines) = 3
    /\ BlankOrComment(StrippedLines[2]) /\ Len(StrippedLines[2]) >= 1
    /\ JoinSp(statements) = StrippedLines[1] \o <<" ">> \o StrippedLines[3]

\* C17: while the loop runs every Statement emitted ends with `;`; when the
\* splitter is done every Statement but the last ends with `;`, the last
\* one lacks it exactly when the last non-skipped line does, and there are
\* as many Statements as non-skipped lines ending with `;`, plus one when a
\* non-skipped line follows the last of them.
C17_StatementsEndWithTerminator ==
    /\ pc = "split" => \A n \in 1..Len(statements) : Terminated(statements[n])
    /\ SplitDone =>
           /\ \A n \in 1..(Len(statements) - 1) : Terminated(statements[n])
           /\ Len(statements) >= 1
                  => /\ Len(KeptLines) >= 1
                     /\ Terminated(statements[Len(statements)])
                            <=> Terminated(KeptLines[Len(KeptLines)])
           /\ Len(statements)
                  = NumTerminated + (IF TrailingLines # <<>> THEN 1 ELSE 0)

\* C17 witness: two Statements, the last one unterminated although it
\* holds a `;`, after a terminated one.
C17_Witness ==
    /\ SplitDone
    /\ Len(statements) = 2
    /\ Terminated(statements[1])
    /\ ~Terminated(statements[2])
    /\ \E p \in 1..Len(statements[2]) : statements[2][p] = ";"

\* An operation on the database: a statement, a commit or a query.
IsDbOperation(c) == c.op \in {"execute", "commit", "query"}

\* C18: connect is called at most once; every execute, commit and query
\* comes after the successful connect and before any close, and is made
\* while the connection is open; and execute_sql_file and verify_data run
\* only with the connection open.
C18_OperationsOnOpenConnection ==
    /\ [](Len(CallsOf("connect")) <= 1)
    /\ [](\A p \in 1..Len(dbLog) :
              IsDbOperation(dbLog[p])
                  => /\ \E c \in 1..(p - 1) :
                            dbLog[c].op = "connect" /\ dbLog[c].res = "ok"
                     /\ \A c \in 1..(p - 1) : dbLog[c].op # "close")
    /\ [](pc \in {"read", "split", "exec", "commit", "verify", "close"}
              => conn = "open")
    /\ [][(Len(dbLog') > Len(dbLog) /\ IsDbOperation(dbLog'[Len(dbLog')]))
              => (conn = "open" /\ conn' = "open")]_vars

\* C18 witness: a finished run with a statement executed and committed and
\* a verification query made, all between the connect and the close.
C18_Witness ==
    /\ pc = "exit"
    /\ conn = "closed"
    /\ Len(dbLog) >= 5
    /\ dbLog[1] = Call("connect", 0, "ok")
    /\ dbLog[2].op = "execute"
    /\ dbLog[3].op = "commit"
    /\ \E p \in 1..Len(dbLog) : dbLog[p].op = "query"
    /\ dbLog[Len(dbLog)].op = "close"

\* The call op made for statement j had the result res.
CallResult(op, j, res) ==
    \E p \in 1..Len(dbLog) :
        dbLog[p].op = op /\ dbLog[p].arg = j /\ dbLog[p].res = res

\* C19: the j-th outcome reported is a success exactly when the execute and
\* the commit of statement j both succeeded; a commit that raised a
\* database error gives a failure for its statement and the next statement
\* is attempted; and a commit is only ever called right after the execute
\* of the same statement succeeded.
C19_SuccessNeedsExecuteAndCommit ==
    /\ \A j \in 1..Len(outcomes) :
           outcomes[j] = "success"
               <=> (CallResult("execute", j, "ok") /\ CallResult("commit", j, "ok"))
    /\ \A j \in 1..Len(statements) :
           CallResult("commit", j, "err")
               => /\ Len(outcomes) >= j
                  /\ outcomes[j] = "failure"
                  /\ j < Len(statements)
                         => (CallResult("execute", j + 1, "ok")
                                \/ CallResult("execute", j + 1, "err")
                                \/ CallResult("execute", j + 1, "exc")
                                \/ (pc = "exec" /\ i = j + 1))
    /\ \A p \in 1..Len(dbLog) :
           dbLog[p].op = "commit"
               => /\ p >= 2
                  /\ dbLog[p - 1] = Call("execute", dbLog[p].arg, "ok")

\* C19 witness: a finished run of three statements; the commit of the first
\* failed and it is reported failed, the second was executed and committed,
\* and the execute of a third statement failed without a commit.
C19_Witness ==
    /\ pc = "exit"
    /\ Len(statements) = 3
    /\ CallResult("execute", 1, "ok") /\ CallResult("commit", 1, "err")
    /\ CallResult("execute", 3, "err")
    /\ outcomes = <<"failure", "success", "failure">>
    /\ Len(CallsOf("commit")) = 2

====
